---- MODULE Spec2Model ----
(***************************************************************************)
(* Model of the batch-boundary decision and incremental-load pipeline:     *)
(* BatchManager / BatchScheduler (etl_system/batch_manager.py),            *)
(* DataExtractor (etl_system/extractor.py), HiveLoader                     *)
(* (etl_system/loader.py) and the orchestrator run_etl_pipeline / main     *)
(* (scripts/run_etl.py).                                                   *)
(*                                                                         *)
(* A file name is a pair <<prefix, base>> standing for "prefix_base.csv";  *)
(* a timestamp string is <<"iso", t>> and Python's None is <<"null">>.     *)
(***************************************************************************)
EXTENDS Integers, Sequences, FiniteSets, TLC

\* ------------------------------------------------------------------ bounds
MaxTime == 2          \* the clock runs over 0..MaxTime
MaxEvents == 3        \* invocations that get past the extraction, plus crashes,
                      \* failed writes and failed reads
MaxFullEvents == 5    \* the same, where full one-shot runs alone are made
MaxFiles == 3         \* the file lists handed to the extractor have at most MaxFiles files
MaxSeconds == 1       \* the detection stage writes during the seconds 0..MaxSeconds
MaxUsec == 2          \* and at most MaxUsec times in a second
MaxCopies == 2        \* a detection_id is stored at most MaxCopies times

\* ----------------------------------------------------------- configuration
\* The configurations that are tried (video_time_window, image_batch_size),
\* and the pending counts handed to the image trigger.
Configs == {<<1, 0>>, <<2, 4>>}
PendingCounts == 0..5

\* The column sets of the batches handed to load_batch that are tried.
BatchColumnSets ==
    SUBSET {"detection_id", "confidence", "detection_timestamp", "class_name",
            "loaded_at", "processing_date"}

\* ------------------------------------------------------- scaled constants
\* The fallback of load_batch inserts by chunks of 100 rows, cleanup_old_state
\* keeps 10000 processed names and the scheduler sleeps 60 s by default; the
\* three are scaled down so that a batch spans several chunks, the processed
\* list can overflow and a sleep is one step of the clock.
chunk_rows == 2
max_files == 2
check_interval == 1
buffer_size == 2

\* -------------------------------------------------------------- the world
None == <<"null">>

VideoA == <<"video", "a">>
VideoBad == <<"video", "bad">>
ImageB == <<"image", "b">>
ImageC == <<"image", "c">>
NotesX == <<"notes", "x">>

\* A readable file with a header line and no row; it is handed to the
\* extractor and never staged.
VideoEmpty == <<"video", "empty">>

\* A later video file, with one detection.
VideoD == <<"video", "d">>

\* The file lists handed to extract_multiple that are tried: the lists of at
\* most MaxFiles files.
FileLists ==
    UNION {[1..n -> {VideoA, VideoBad, ImageB, VideoEmpty}] : n \in 0..MaxFiles}

\* The order in which the staging directory lists its files, and the two
\* deliveries in which the detection stage creates them.
FileOrder == <<VideoA, ImageB, NotesX, VideoBad, ImageC, VideoD>>
Deliveries == <<{VideoA, ImageB, NotesX}, {VideoBad, ImageC}>>

\* The deliveries of a detection stage that is run on videos alone.
VideoDeliveries == <<{VideoA}, {VideoD}>>

Row(id, conf) == [detection_id |-> id, confidence |-> conf]

\* The rows of each staged CSV file; "lo" is a confidence below the
\* configured minimum, and ImageB repeats a row.
Content(f) ==
    CASE f = VideoA -> <<Row(1, "hi"), Row(2, "lo")>>
      [] f = ImageB -> <<Row(3, "hi"), Row(3, "hi"), Row(4, "hi")>>
      [] f = ImageC -> <<Row(5, "hi")>>
      [] f = NotesX -> <<Row(6, "hi")>>
      [] f = VideoD -> <<Row(5, "hi")>>
      [] OTHER -> <<>>

\* pd.read_csv raises on VideoBad (a malformed file).
Readable(f) == f # VideoBad

Ids == 1..6

\* ---------------------------------------------------------------- helpers
Range(s) == {s[i] : i \in 1..Len(s)}

Min(a, b) == IF a < b THEN a ELSE b

\* str.startswith(f"{source_type}_")
startswith(f, source_type) == f[1] = source_type

\* datetime.isoformat / datetime.fromisoformat
isoformat(t) == <<"iso", t>>
fromisoformat(s) == s[2]

\* ---------------------------------------------------------- ObjectDetector
\* A Python string is a sequence of one-character strings. str(n) of a
\* natural number, the f-string of _generate_detection_id and the MD5 digest,
\* a hash taken to have no collision among the strings tried.
Digits == <<"0", "1", "2", "3", "4", "5", "6", "7", "8", "9">>

RECURSIVE str(_)
str(n) == IF n < 10 THEN <<Digits[n + 1]>>
          ELSE str(n \div 10) \o <<Digits[(n % 10) + 1]>>

md5_hexdigest(unique_string) == <<"md5", unique_string>>

\* dict.get(key, default)
get(source_info, key, default) ==
    IF key \in DOMAIN source_info THEN source_info[key] ELSE default

\* ObjectDetector._generate_detection_id
_generate_detection_id_noidx(source_info, detection_idx) ==
    md5_hexdigest(get(source_info, "source", <<>>) \o <<":">>
                  \o str(get(source_info, "frame_number", 0)) \o <<":">>
                  \o get(source_info, "timestamp", <<>>))

_generate_detection_id(source_info, detection_idx) ==
    LET unique_string ==
            get(source_info, "source", <<>>) \o <<":">>
            \o str(get(source_info, "frame_number", 0)) \o <<":">>
            \o get(source_info, "timestamp", <<>>) \o <<":">>
            \o str(detection_idx)
    IN  md5_hexdigest(unique_string)

\* The source_info records and the detection indexes that are tried.
SourceInfos ==
    LET sources == {<<"a">>, <<"a", ":", "1">>}
        frames == {0, 1, 11}
        stamps == {<<"t">>, <<"1", ":", "t">>}
    IN  {[source |-> s0, frame_number |-> f0, timestamp |-> t0] :
            s0 \in sources, f0 \in frames, t0 \in stamps}
        \cup {[source |-> s0, timestamp |-> t0] : s0 \in sources, t0 \in stamps}
        \cup {[source |-> s0] : s0 \in sources}
DetectionIdxs == {0, 1, 2, 10, 11, 12}

\* The detection each detection_id of the staged rows stands for: the two
\* detections of one frame of video a, the two of image b, and so on.
DetectionOf ==
    << [info |-> [source |-> <<"a">>, frame_number |-> 1, timestamp |-> <<"t">>], idx |-> 0],
       [info |-> [source |-> <<"a">>, frame_number |-> 1, timestamp |-> <<"t">>], idx |-> 1],
       [info |-> [source |-> <<"b">>, timestamp |-> <<"t">>], idx |-> 0],
       [info |-> [source |-> <<"b">>, timestamp |-> <<"t">>], idx |-> 1],
       [info |-> [source |-> <<"c">>, timestamp |-> <<"t">>], idx |-> 0],
       [info |-> [source |-> <<"x">>, timestamp |-> <<"t">>], idx |-> 0] >>

\* --------------------------------------------------------------- CSVWriter
\* The images and videos the detection stage is run on, as <<stem, extension>>,
\* the names given to flush ("" for none) and the lists of detections written.
MediaNames == {<<"a", "jpg">>, <<"a", "png">>}
SourceNames == {"", "cam"}
DetectionLists == {<<>>, <<1>>, <<2>>}

\* Path(name).stem
stem(name) == name[1]

\* datetime.now().strftime(format) of the time t = [sec, usec]
strftime(t, format) ==
    IF format = "%Y%m%d_%H%M%S" THEN <<t.sec>> ELSE <<t.sec, t.usec>>

\* A CSVWriter: the CSV files of its staging directory, name to rows, and its
\* buffer (files_created, a log of the paths written, is left out); usec is
\* the microsecond of the clock.
NewWriter == [staging_dir |-> <<>>, buffer |-> <<>>, usec |-> 0]

\* open(filepath, "w") and the rows written: the file is created, or
\* truncated and written anew.
open_w(dir, filepath, rows) ==
    [f \in DOMAIN dir \cup {filepath} |-> IF f = filepath THEN rows ELSE dir[f]]

\* CSVWriter.flush
flush(w, source_name, t) ==
    IF w.buffer = <<>> THEN w
    ELSE LET filename ==
                 IF source_name # ""
                 THEN <<source_name, "", strftime(t, "%Y%m%d_%H%M%S")>>
                 ELSE <<"detections", "", strftime(t, "%Y%m%d_%H%M%S%f")>>
         IN  [w EXCEPT !.staging_dir = open_w(@, filename, w.buffer),
                       !.buffer = <<>>]

\* CSVWriter.flush when the write raises: open() fails and no file is touched
\* (upto = -1), or the file is created or truncated and the rows stop
\* after the first `upto` of the buffer. The buffer is not cleared.
flush_raises(w, source_name, t, upto) ==
    LET filename ==
            IF source_name # ""
            THEN <<source_name, "", strftime(t, "%Y%m%d_%H%M%S")>>
            ELSE <<"detections", "", strftime(t, "%Y%m%d_%H%M%S%f")>>
    IN  IF upto < 0 THEN w
        ELSE [w EXCEPT !.staging_dir = open_w(@, filename, SubSeq(w.buffer, 1, upto))]

\* CSVWriter.add_detections when the flush it calls raises.
add_detections_raises(w, detections, t, upto) ==
    flush_raises([w EXCEPT !.buffer = @ \o detections], "", t, upto)

\* CSVWriter.add_detections
add_detections(w, detections, t) ==
    LET extended == [w EXCEPT !.buffer = @ \o detections]
    IN  IF Len(extended.buffer) >= buffer_size
        THEN flush(extended, "", t)
        ELSE extended

\* CSVWriter.write_video_detections
write_video_detections(w, video_name, all_detections, t) ==
    IF all_detections = <<>> THEN w
    ELSE LET clean_name == stem(video_name)
             filename == <<"video", clean_name, strftime(t, "%Y%m%d_%H%M%S")>>
         IN  [w EXCEPT !.staging_dir = open_w(@, filename, all_detections)]

\* CSVWriter.write_image_detections
write_image_detections(w, image_name, detections, t) ==
    IF detections = <<>> THEN w
    ELSE LET clean_name == stem(image_name)
             filename == <<"image", clean_name, strftime(t, "%Y%m%d_%H%M%S")>>
         IN  [w EXCEPT !.staging_dir = open_w(@, filename, detections)]

\* ------------------------------------------------------------ BatchManager
\* The empty default state synthesized by _load_state and reset_state.
DefaultState ==
    [processed_files |-> <<>>,
     last_video_batch |-> None,
     pending_images |-> <<>>,
     last_run |-> None,
     statistics |-> [total_batches |-> 0, total_records |-> 0,
                     video_batches |-> 0, image_batches |-> 0]]

\* The state file: absent, unparsable (truncated by an interrupted write),
\* or the JSON text of a state.
AbsentFile == [kind |-> "absent", json |-> DefaultState]
CorruptFile == [kind |-> "corrupt", json |-> DefaultState]
json_dump(st) == [kind |-> "json", json |-> st]

\* BatchManager._load_state: the parsed file if it exists and parses,
\* otherwise the default state.
_load_state(file) ==
    IF file.kind = "json" THEN file.json ELSE DefaultState

\* BatchManager._save_state under the three outcomes of the write: "ok",
\* "error" (open() fails, the exception is logged, the file is untouched) and
\* "partial" (open(.., "w") truncated the file and the dump did not finish).
SaveOutcomes == {"ok", "error", "partial"}
_save_state(st, file, outcome) ==
    CASE outcome = "ok" -> json_dump(st)
      [] outcome = "error" -> file
      [] OTHER -> CorruptFile

\* BatchManager.should_process_video_batch
should_process_video_batch_gt(st, clock, window) ==
    IF st.last_video_batch = None
    THEN TRUE
    ELSE (clock - fromisoformat(st.last_video_batch)) > window

should_process_video_batch_unset(st, clock, window) ==
    /\ st.last_video_batch # None
    /\ (clock - fromisoformat(st.last_video_batch)) >= window

should_process_video_batch(st, clock, window) ==
    IF st.last_video_batch = None
    THEN TRUE
    ELSE LET last_batch == fromisoformat(st.last_video_batch)
             time_elapsed == clock - last_batch
         IN  time_elapsed >= window

\* BatchManager.should_process_image_batch
should_process_image_batch_gt(pending_count, batch_size) ==
    pending_count > batch_size

should_process_image_batch(pending_count, batch_size) ==
    pending_count >= batch_size

\* BatchManager.mark_files_processed (the mutation; the save is the caller's)
RECURSIVE append_new(_, _)
append_new(processed, filenames) ==
    IF filenames = <<>> THEN processed
    ELSE append_new(IF Head(filenames) \in Range(processed)
                    THEN processed
                    ELSE Append(processed, Head(filenames)),
                    Tail(filenames))

mark_files_processed_extend(st, filenames) ==
    [st EXCEPT !.processed_files = @ \o filenames]

mark_files_processed(st, filenames) ==
    [st EXCEPT !.processed_files = append_new(@, filenames)]

\* BatchManager.update_video_batch_time
update_video_batch_time_count(st, clock) ==
    [st EXCEPT !.statistics.video_batches = @ + 1]

update_video_batch_time(st, clock) ==
    [st EXCEPT !.last_video_batch = isoformat(clock),
               !.statistics.video_batches = @ + 1]

\* BatchManager.update_image_batch_processed
update_image_batch_processed_both(st, count) ==
    [st EXCEPT !.statistics.image_batches = @ + 1,
               !.statistics.video_batches = @ + 1,
               !.pending_images = <<>>]

update_image_batch_processed(st, count) ==
    [st EXCEPT !.statistics.image_batches = @ + 1,
               !.pending_images = <<>>]

\* BatchManager.update_statistics
update_statistics(st, records_processed, clock) ==
    [st EXCEPT !.statistics.total_batches = @ + 1,
               !.statistics.total_records = @ + records_processed,
               !.last_run = isoformat(clock)]

\* BatchManager.get_pending_files(all_files, source_type), the parameters
\* written files and type
get_pending_files_again(st, files, type) ==
    SelectSeq(files, LAMBDA f : startswith(f, type))

get_pending_files(st, files, type) ==
    LET processed == Range(st.processed_files)
        pending == SelectSeq(files, LAMBDA f : f \notin processed)
    IN  SelectSeq(pending, LAMBDA f : startswith(f, type))

\* BatchManager.cleanup_old_state (the mutation): keep the last max_files names
cleanup_old_state(st) ==
    IF Len(st.processed_files) > max_files
    THEN [st EXCEPT !.processed_files =
              SubSeq(@, Len(@) - max_files + 1, Len(@))]
    ELSE st

\* ----------------------------------------------------------- DataExtractor
\* DataExtractor.scan_staging_files
scan_staging_files_lax(dir) ==
    LET csv_files == SelectSeq(FileOrder, LAMBDA f : f \in dir)
    IN  [video |-> SelectSeq(csv_files, LAMBDA f : startswith(f, "video")),
         image |-> SelectSeq(csv_files, LAMBDA f : ~startswith(f, "video")),
         unknown |-> <<>>]

scan_staging_files(dir) ==
    LET csv_files == SelectSeq(FileOrder, LAMBDA f : f \in dir)
    IN  [video |-> SelectSeq(csv_files, LAMBDA f : startswith(f, "video")),
         image |-> SelectSeq(csv_files,
                      LAMBDA f : ~startswith(f, "video") /\ startswith(f, "image")),
         unknown |-> SelectSeq(csv_files,
                      LAMBDA f : ~startswith(f, "video") /\ ~startswith(f, "image"))]

\* DataExtractor.extract_csv: the rows of the file, tagged with its name
extract_csv(f) ==
    [i \in 1..Len(Content(f)) |->
        [detection_id |-> Content(f)[i].detection_id,
         confidence |-> Content(f)[i].confidence,
         _source_file |-> f]]

\* DataExtractor.extract_multiple: unreadable files are logged and skipped
RECURSIVE extract_multiple_abort(_)
extract_multiple_abort(filepaths) ==
    IF filepaths = <<>> \/ ~Readable(Head(filepaths)) THEN <<>>
    ELSE extract_csv(Head(filepaths)) \o extract_multiple_abort(Tail(filepaths))

RECURSIVE extract_multiple(_)
extract_multiple(filepaths) ==
    IF filepaths = <<>> THEN <<>>
    ELSE (IF Readable(Head(filepaths)) THEN extract_csv(Head(filepaths)) ELSE <<>>)
         \o extract_multiple(Tail(filepaths))

\* DataExtractor.extract_pending_files; source_type is "" (or None, falsy
\* alike) for all types
extract_pending_files(processed_files, source_type, dir) ==
    LET all_files == IF source_type # ""
                     THEN scan_staging_files(dir)[source_type]
                     ELSE scan_staging_files(dir)["video"]
                          \o scan_staging_files(dir)["image"]
        pending_files == SelectSeq(all_files, LAMBDA f : f \notin Range(processed_files))
    IN  extract_multiple(pending_files)

\* --------------------------------------------------------- DataTransformer
\* transform_pipeline: rows below the minimum confidence are dropped and rows
\* with the same detection_id are collapsed to the first one.
RECURSIVE drop_duplicates(_, _)
drop_duplicates(df, seen) ==
    IF df = <<>> THEN <<>>
    ELSE IF Head(df).detection_id \in seen
         THEN drop_duplicates(Tail(df), seen)
         ELSE <<Head(df)>> \o
              drop_duplicates(Tail(df), seen \cup {Head(df).detection_id})

transform_pipeline(df) ==
    drop_duplicates(SelectSeq(df, LAMBDA r : r.confidence = "hi"), {})

\* -------------------------------------------------------------- HiveLoader
\* What the warehouse does during one load: whether the read of the existing
\* ids succeeds, whether the load connection opens, whether LOAD DATA
\* succeeds, and which fallback chunks (by start index) are rejected.
ChunkStarts == {0, chunk_rows}
HiveOutcomes ==
    {h \in [ids_read : BOOLEAN, connect : BOOLEAN, bulk : BOOLEAN,
            bad_chunks : SUBSET ChunkStarts] :
        (h.bulk \/ ~h.connect) => h.bad_chunks = {}}
HiveNominal == [ids_read |-> TRUE, connect |-> TRUE, bulk |-> TRUE, bad_chunks |-> {}]
HiveRefused == [ids_read |-> TRUE, connect |-> FALSE, bulk |-> FALSE, bad_chunks |-> {}]

\* HiveLoader.get_existing_detection_ids: an error is logged and the empty
\* set returned
get_existing_detection_ids(table, hive) ==
    IF hive.ids_read THEN {i \in Ids : table[i] > 0} ELSE {}

\* The fallback of load_batch: INSERT by chunks of chunk_rows rows from
\* start_idx on; a rejected chunk is logged and skipped.
RECURSIVE insert_chunks_abort(_, _, _)
insert_chunks_abort(df, start_idx, hive) ==
    IF start_idx >= Len(df) \/ start_idx \in hive.bad_chunks THEN <<>>
    ELSE SubSeq(df, start_idx + 1, Min(start_idx + chunk_rows, Len(df)))
         \o insert_chunks_abort(df, start_idx + chunk_rows, hive)

RECURSIVE insert_chunks(_, _, _)
insert_chunks(df, start_idx, hive) ==
    IF start_idx >= Len(df) THEN <<>>
    ELSE LET end_idx == Min(start_idx + chunk_rows, Len(df))
             batch_df == SubSeq(df, start_idx + 1, end_idx)
         IN  (IF start_idx \in hive.bad_chunks THEN <<>> ELSE batch_df)
             \o insert_chunks(df, start_idx + chunk_rows, hive)

\* HiveLoader.load_batch, the preparation of the columns. The columns of a
\* DataFrame are a set of pairs <<label, origin>>; the origin of a value is
\* <<"batch", c>> (column c of the batch handed in), <<"now">> (the time of
\* the load), <<"date", x>> (the calendar day of x) or None.
rename_map ==
    << <<"timestamp", "detection_timestamp">>,
       <<"filename", "source_filename">>,
       <<"_extracted_at", "extracted_at">>,
       <<"_processed_at", "processed_at">>,
       <<"_loaded_at", "loaded_at">>,
       <<"_source_file", "source_csv_file">> >>

expected_columns ==
    << "detection_id", "source_type", "source_file", "source_filename",
       "detection_timestamp", "frame_number", "frame_timestamp", "class_id",
       "class_name", "confidence", "bbox_x1", "bbox_y1", "bbox_x2", "bbox_y2",
       "bbox_width", "bbox_height", "bbox_area", "center_x", "center_y",
       "normalized_x1", "normalized_y1", "normalized_x2", "normalized_y2",
       "aspect_ratio", "relative_area", "image_width", "image_height",
       "detection_index", "size_category", "confidence_category",
       "horizontal_position", "vertical_position", "extracted_at",
       "processed_at", "loaded_at", "source_csv_file", "processing_date" >>

labels(columns) == {p[1] : p \in columns}

\* df[label] = value: the column is replaced, or added
assign(columns, label, origin) ==
    {p \in columns : p[1] # label} \cup {<<label, origin>>}

\* for old_col, new_col in rename_map.items(): df.rename(...)
RECURSIVE rename(_, _)
rename(columns, map) ==
    IF map = <<>> THEN columns
    ELSE rename({IF p[1] = Head(map)[1] THEN <<Head(map)[2], p[2]>> ELSE p :
                    p \in columns},
                Tail(map))

\* df["processing_date"] = ...
processing_date(columns) ==
    assign(columns, "processing_date",
           IF "detection_timestamp" \in labels(columns)
           THEN <<"date", "detection_timestamp">>
           ELSE IF "timestamp" \in labels(columns)
                THEN <<"date", "timestamp">>
                ELSE <<"date", "now">>)

\* for col in expected_columns: if col not in df.columns: df[col] = None
fill_missing_none(columns) == columns

fill_missing(columns) ==
    columns \cup {<<expected_columns[k], None>> :
                     k \in {j \in 1..Len(expected_columns) :
                               expected_columns[j] \notin labels(columns)}}

\* df = df[expected_columns]: for each expected label in order, the columns
\* of that label (their origins)
select_expected(columns) ==
    [k \in 1..Len(expected_columns) |->
        {p[2] : p \in {q \in columns : q[1] = expected_columns[k]}}]

\* The columns load_batch writes for a batch with the columns cols.
prepare_columns(cols) ==
    LET df0 == assign({<<c, <<"batch", c>>>> : c \in cols}, "loaded_at", <<"now">>)
        df1 == rename(df0, rename_map)
        df2 == processing_date(df1)
        df3 == fill_missing(df2)
    IN  select_expected(df3)

\* HiveLoader.load_batch: the rows written, the count returned and whether
\* the call raised.
load_batch_len(df, hive) ==
    IF df = <<>> THEN [raised |-> FALSE, rows |-> <<>>, total_loaded |-> 0]
    ELSE IF ~hive.connect
         THEN [raised |-> TRUE, rows |-> <<>>, total_loaded |-> 0]
    ELSE [raised |-> FALSE,
          rows |-> IF hive.bulk THEN df ELSE insert_chunks(df, 0, hive),
          total_loaded |-> Len(df)]

load_batch(df, hive) ==
    IF df = <<>> THEN [raised |-> FALSE, rows |-> <<>>, total_loaded |-> 0]
    ELSE IF ~hive.connect
         THEN [raised |-> TRUE, rows |-> <<>>, total_loaded |-> 0]
    ELSE IF hive.bulk
         THEN [raised |-> FALSE, rows |-> df, total_loaded |-> Len(df)]
    ELSE LET done == insert_chunks(df, 0, hive)
         IN  [raised |-> FALSE, rows |-> done, total_loaded |-> Len(done)]

\* HiveLoader.load_with_deduplication
load_with_deduplication(df, table, hive) ==
    IF df = <<>> THEN [raised |-> FALSE, rows |-> <<>>, total_loaded |-> 0]
    ELSE LET existing_ids == get_existing_detection_ids(table, hive)
             df_new == SelectSeq(df, LAMBDA r : r.detection_id \notin existing_ids)
         IN  IF df_new = <<>>
             THEN [raised |-> FALSE, rows |-> <<>>, total_loaded |-> 0]
             ELSE load_batch(df_new, hive)

\* The table after the rows are appended to it.
insert_rows(table, rows) ==
    [i \in Ids |-> table[i] + Cardinality({k \in 1..Len(rows) : rows[k].detection_id = i})]

\* ------------------------------------------------------------------- state
VARIABLES
    staging,            \* the CSV files in the staging directory
    csv_writer,         \* the CSVWriter of the detection stage, see NewWriter
    now,                \* datetime.now()
    video_time_window,  \* configuration
    image_batch_size,   \* configuration
    stateFile,          \* the state file on disk
    warehouse,          \* detection_id -> number of rows of the table with it
    proc,               \* "down", or the mode of the running process
    state,              \* BatchManager.state of the running process
    running,            \* BatchScheduler.running
    stop_called,        \* history of BatchScheduler.stop, see FollowStop
    todo,               \* one-shot mode: the source types still to run
    pc,                 \* the position of the process
    source_type,        \* run_etl_pipeline: its argument
    all_files,          \* run_etl_pipeline: names in all_files[source_type]
    pending_files,      \* run_etl_pipeline: pending_files
    df,                 \* run_etl_pipeline: df_raw, then df_transformed
    loaded_count,       \* run_etl_pipeline: loaded_count
    events,             \* number of events still allowed, see MaxEvents
    in_a_row,           \* history of the full one-shot runs, see Follow
    entry,              \* history: state and state file at the invocation's start
    load_returned,      \* history: load_with_deduplication returned in this invocation
    written             \* history: rows this invocation added to the warehouse

vars == <<staging, csv_writer, now, video_time_window, image_batch_size, stateFile, warehouse,
          proc, state, running, stop_called, todo, pc, source_type, all_files, pending_files,
          df, loaded_count, events, entry, load_returned, written, in_a_row>>

config == <<video_time_window, image_batch_size>>
locals == <<source_type, all_files, pending_files, df, loaded_count>>
history == <<entry, load_returned, written>>

\* in_a_row is -1 when the full runs are not followed, and else: 0, no full run
\* has just completed; 1, a first full run is in progress; 2, it has completed
\* and the staging area is as it found it; 3, the next full run is in progress.
Follow(v) == in_a_row' = (IF in_a_row = -1 THEN -1 ELSE v)

\* stop_called is -1 when the calls of stop are not followed, and else: 0,
\* stop has not been called on the scheduler of the process; 1, it has.
FollowStop(v) == stop_called' = (IF stop_called = -1 THEN -1 ELSE v)

NoEntry == [state |-> DefaultState, file |-> AbsentFile]

PipelinePcs == {"extract", "transform", "load", "mark", "stats", "type_update"}
UpdatePcs == {"mark", "stats", "type_update"}

InitWith(dirs, budget, followed, stops) ==
    /\ staging \in dirs
    /\ csv_writer = NewWriter
    /\ now = 0
    /\ \E c \in Configs : video_time_window = c[1] /\ image_batch_size = c[2]
    /\ stateFile = AbsentFile
    /\ warehouse = [i \in Ids |-> 0]
    /\ proc = "down"
    /\ state = DefaultState
    /\ running = FALSE
    /\ stop_called = stops
    /\ todo = <<>>
    /\ pc = "idle"
    /\ source_type = "none"
    /\ all_files = <<>>
    /\ pending_files = <<>>
    /\ df = <<>>
    /\ loaded_count = 0
    /\ events = budget
    /\ in_a_row = followed
    /\ entry = NoEntry
    /\ load_returned = FALSE
    /\ written = 0

\* The staging directory is empty and nothing has run.
Init == InitWith({{}}, MaxEvents, -1, -1)

\* The detection stage has delivered and nothing has run; the full runs are
\* followed.
InitFull ==
    InitWith({Deliveries[1], Deliveries[1] \cup Deliveries[2]}, MaxFullEvents, 0, -1)

\* ------------------------------------------------------------- environment
\* n more events happen, within the budget of events. (An exception that
\* aborts an invocation before anything is written is not counted.)
Event(n) ==
    /\ events >= n
    /\ events' = events - n

SaveCost(outcome) == IF outcome = "ok" THEN 0 ELSE 1

\* The detection stage writes its next CSV files into the staging directory.
\* (The directory is read by the extraction alone, so a delivery during the
\* later phases of an invocation is one right after it.)
AddFileOf(deliveries) ==
    /\ pc \notin {"transform", "load", "mark", "stats", "type_update"}
    /\ \E k \in 1..Len(deliveries) :
        /\ deliveries[k] \cap staging = {}
        /\ \A j \in 1..(k - 1) : deliveries[j] \subseteq staging
        /\ staging' = staging \cup deliveries[k]
    /\ Follow(0)
    /\ UNCHANGED <<csv_writer, now, config, stateFile, warehouse, proc, state, running,
                   stop_called, todo, pc, locals, events, history>>

AddFile == AddFileOf(Deliveries)

AddVideoFile == AddFileOf(VideoDeliveries)

\* Time passes. (The clock is read by the video trigger and by the state
\* updates alone, so time passing elsewhere in a run is time passing before
\* the next of these.)
Tick ==
    /\ pc \in {"idle", "sched_video", "stats", "type_update"}
    /\ now < MaxTime
    /\ now' = now + 1
    /\ UNCHANGED <<staging, csv_writer, config, stateFile, warehouse, proc, state, running, stop_called, todo,
                   pc, locals, events, history, in_a_row>>

ClearLocals ==
    /\ source_type' = "none"
    /\ all_files' = <<>>
    /\ pending_files' = <<>>
    /\ df' = <<>>
    /\ loaded_count' = 0
    /\ entry' = NoEntry
    /\ load_returned' = FALSE
    /\ written' = 0

\* The process is gone: its memory is lost, the disk and the warehouse stay.
ProcessEnds ==
    /\ proc' = "down"
    /\ pc' = "idle"
    /\ state' = DefaultState
    /\ running' = FALSE
    /\ FollowStop(0)
    /\ todo' = <<>>
    /\ ClearLocals

\* The process is killed at any point of its run.
Crash ==
    /\ proc # "down"
    /\ Event(1)
    /\ ProcessEnds
    /\ Follow(0)
    /\ UNCHANGED <<staging, csv_writer, now, config, stateFile, warehouse>>

\* -------------------------------------------------------------------- main
\* main up to the dispatch: the components are built (BatchManager.__init__
\* loads the state), --reset-state resets it, and the mode is chosen.
StartMainWith(modes, resets) ==
    /\ proc = "down"
    /\ \E mode \in modes, reset \in resets, outcome \in SaveOutcomes :
        /\ Follow(IF mode = "all" /\ ~reset THEN (IF in_a_row = 2 THEN 3 ELSE 1) ELSE 0)
        /\ proc' = (IF mode = "daemon" THEN "daemon" ELSE "oneshot")
        /\ todo' = (CASE mode = "all" -> <<"video", "image">>
                      [] mode = "daemon" -> <<>>
                      [] OTHER -> <<mode>>)
        /\ pc' = (IF mode = "daemon" THEN "sched_run" ELSE "main")
        /\ IF reset
           THEN /\ state' = DefaultState
                /\ stateFile' = _save_state(DefaultState, stateFile, outcome)
                /\ Event(SaveCost(outcome))
           ELSE /\ state' = _load_state(stateFile)
                /\ outcome = "ok"
                /\ UNCHANGED <<stateFile, events>>
    /\ UNCHANGED <<staging, csv_writer, now, config, warehouse, running, stop_called, locals, history>>

StartMain == StartMainWith({"video", "image", "all", "daemon"}, BOOLEAN)

\* main is started for a full one-shot run, without --reset-state.
StartFullRun == StartMainWith({"all"}, {FALSE})

\* main is started with --daemon, without --reset-state.
StartDaemon == StartMainWith({"daemon"}, {FALSE})

\* run_etl_pipeline is entered for source type st.
EnterPipeline(st) ==
    /\ source_type' = st
    /\ pc' = "extract"
    /\ entry' = [state |-> state, file |-> stateFile]
    /\ load_returned' = FALSE
    /\ written' = 0
    /\ UNCHANGED <<all_files, pending_files, df, loaded_count>>

\* One-shot mode: the next source type is run, or main finishes.
MainRun ==
    /\ pc = "main"
    /\ todo # <<>>
    /\ EnterPipeline(Head(todo))
    /\ todo' = Tail(todo)
    /\ UNCHANGED <<staging, csv_writer, now, config, stateFile, warehouse, proc, state, running, stop_called,
                   events, in_a_row>>

MainExit ==
    /\ pc = "main"
    /\ todo = <<>>
    /\ ProcessEnds
    /\ Follow(IF in_a_row = 1 THEN 2 ELSE 0)
    /\ UNCHANGED <<staging, csv_writer, now, config, stateFile, warehouse, events>>

\* One-shot mode: the handler of main logs the exception and exits with
\* status 1.
MainExcept ==
    /\ pc = "main_except"
    /\ ProcessEnds
    /\ Follow(0)
    /\ UNCHANGED <<staging, csv_writer, now, config, stateFile, warehouse, events>>

\* --------------------------------------------------------- run_etl_pipeline
\* run_etl_pipeline returns to its caller: main, or the scheduler's loop.
ReturnFromPipeline ==
    /\ pc' = (IF proc = "oneshot" THEN "main"
              ELSE IF source_type = "video" THEN "sched_image" ELSE "sched_sleep")
    /\ ClearLocals
    /\ UNCHANGED <<proc, running, stop_called, todo>>

\* run_etl_pipeline re-raises: the exception reaches the handler of main
\* or, in continuous mode, the handler of the scheduler's loop.
RaiseFromPipeline_stamped ==
    /\ pc' = (IF proc = "oneshot" THEN "main_except" ELSE "sched_except")
    /\ ClearLocals
    /\ state' = update_video_batch_time(state, now)
    /\ UNCHANGED <<proc, running, stop_called, todo>>

RaiseFromPipeline ==
    /\ pc' = (IF proc = "oneshot" THEN "main_except" ELSE "sched_except")
    /\ ClearLocals
    /\ UNCHANGED <<proc, state, running, stop_called, todo>>

\* Phase 1: scan, select the pending files, extract them.
Extract_marking ==
    /\ pc = "extract"
    /\ LET files == scan_staging_files(staging)[source_type]
           pending == get_pending_files(state, files, source_type)
           files_to_process == SelectSeq(files, LAMBDA f : f \in Range(pending))
           df_raw == extract_multiple(files_to_process)
       IN  IF pending = <<>> \/ df_raw = <<>>
           THEN /\ ReturnFromPipeline
                /\ state' = mark_files_processed(state, pending)
                /\ UNCHANGED events
           ELSE /\ Event(1)
                /\ pc' = "transform"
                /\ all_files' = files
                /\ pending_files' = pending
                /\ df' = df_raw
                /\ UNCHANGED <<proc, state, running, stop_called, todo, source_type,
                               loaded_count, history>>
    /\ UNCHANGED <<staging, csv_writer, now, config, stateFile, warehouse, in_a_row>>

Extract ==
    /\ pc = "extract"
    /\ LET files == scan_staging_files(staging)[source_type]
           pending == get_pending_files(state, files, source_type)
           files_to_process == SelectSeq(files, LAMBDA f : f \in Range(pending))
           df_raw == extract_multiple(files_to_process)
       IN  IF pending = <<>> \/ df_raw = <<>>
           THEN ReturnFromPipeline /\ UNCHANGED <<state, events>>
           ELSE /\ Event(1)
                /\ pc' = "transform"
                /\ all_files' = files
                /\ pending_files' = pending
                /\ df' = df_raw
                /\ UNCHANGED <<proc, state, running, stop_called, todo, source_type, loaded_count,
                               history>>
    /\ UNCHANGED <<staging, csv_writer, now, config, stateFile, warehouse, in_a_row>>

\* Phase 2: transform.
Transform_marking ==
    /\ pc = "transform"
    /\ pc' = "load"
    /\ df' = transform_pipeline(df)
    /\ state' = mark_files_processed(state, pending_files)
    /\ UNCHANGED <<staging, csv_writer, now, config, stateFile, warehouse, proc, running, stop_called,
                   todo, source_type, all_files, pending_files, loaded_count, events,
                   history, in_a_row>>

Transform ==
    /\ pc = "transform"
    /\ pc' = "load"
    /\ df' = transform_pipeline(df)
    /\ UNCHANGED <<staging, csv_writer, now, config, stateFile, warehouse, proc, state, running, stop_called,
                   todo, source_type, all_files, pending_files, loaded_count, events,
                   history, in_a_row>>

\* An exception escapes the extraction or the transformation.
ExtractOrTransformRaises ==
    /\ pc \in {"extract", "transform"}
    /\ RaiseFromPipeline
    /\ UNCHANGED <<staging, csv_writer, now, config, stateFile, warehouse, events, in_a_row>>

\* Phase 3: load with deduplication, the warehouse doing one of outcomes.
LoadWith(outcomes) ==
    /\ pc = "load"
    /\ \E hive \in outcomes :
        LET r == load_with_deduplication(df, warehouse, hive)
            table == insert_rows(warehouse, r.rows)
        IN  /\ Event(IF hive \in {HiveNominal, HiveRefused} THEN 0 ELSE 1)
            /\ \A i \in Ids : table[i] <= MaxCopies
            /\ warehouse' = table
            /\ IF r.raised
               THEN RaiseFromPipeline
               ELSE /\ pc' = "mark"
                    /\ loaded_count' = r.total_loaded
                    /\ load_returned' = TRUE
                    /\ written' = written + Len(r.rows)
                    /\ UNCHANGED <<proc, state, running, stop_called, todo, source_type, all_files,
                                   pending_files, df, entry>>
    /\ UNCHANGED <<staging, csv_writer, now, config, stateFile, in_a_row>>

Load == LoadWith(HiveOutcomes)

\* The load while the warehouse is unreachable: no connection opens.
HiveDown == {hive \in HiveOutcomes : ~hive.ids_read /\ ~hive.connect}

LoadDown == LoadWith(HiveDown)

\* A state-changing method of BatchManager: the state becomes st and is saved.
Mutate(st) ==
    /\ state' = st
    /\ \E outcome \in SaveOutcomes :
        /\ stateFile' = _save_state(st, stateFile, outcome)
        /\ Event(SaveCost(outcome))

\* Phase 4, first call: mark_files_processed(pending_files).
Mark ==
    /\ pc = "mark"
    /\ pc' = "stats"
    /\ Mutate(mark_files_processed(state, pending_files))
    /\ UNCHANGED <<staging, csv_writer, now, config, warehouse, proc, running, stop_called, todo, locals,
                   history, in_a_row>>

\* Phase 4, second call: update_statistics(loaded_count).
Stats ==
    /\ pc = "stats"
    /\ pc' = "type_update"
    /\ Mutate(update_statistics(state, loaded_count, now))
    /\ UNCHANGED <<staging, csv_writer, now, config, warehouse, proc, running, stop_called, todo, locals,
                   history, in_a_row>>

\* Phase 4, third call: the update of the source type; the table statistics
\* are logged and the pipeline returns.
TypeUpdate ==
    /\ pc = "type_update"
    /\ Mutate(IF source_type = "video"
              THEN update_video_batch_time(state, now)
              ELSE update_image_batch_processed(state, Len(pending_files)))
    /\ ReturnFromPipeline
    /\ UNCHANGED <<staging, csv_writer, now, config, warehouse, in_a_row>>

\* ---------------------------------------------------------- BatchScheduler
\* BatchScheduler.run starts: self.running = True.
SchedRun ==
    /\ pc = "sched_run"
    /\ running' = TRUE
    /\ pc' = "sched_loop"
    /\ UNCHANGED <<staging, csv_writer, now, config, stateFile, warehouse, proc, state,
                   stop_called, todo, locals, events, history, in_a_row>>

\* while self.running: the next iteration starts, or run returns and main ends.
SchedLoop ==
    /\ pc = "sched_loop"
    /\ IF running
       THEN /\ pc' = "sched_video"
            /\ UNCHANGED <<proc, state, running, stop_called, todo, locals, history>>
       ELSE ProcessEnds
    /\ UNCHANGED <<staging, csv_writer, now, config, stateFile, warehouse, events, in_a_row>>

\* The video trigger is checked and the video pipeline run if it is ready.
SchedVideo ==
    /\ pc = "sched_video"
    /\ IF should_process_video_batch(state, now, video_time_window)
       THEN EnterPipeline("video")
       ELSE /\ pc' = "sched_image"
            /\ UNCHANGED <<locals, history>>
    /\ UNCHANGED <<staging, csv_writer, now, config, stateFile, warehouse, proc, state, running, stop_called,
                   todo, events, in_a_row>>

\* The image trigger is checked and the image pipeline run if it is ready.
SchedImage ==
    /\ pc = "sched_image"
    /\ LET pending_images == Len(state.pending_images)
       IN  IF should_process_image_batch(pending_images, image_batch_size)
           THEN EnterPipeline("image")
           ELSE /\ pc' = "sched_sleep"
                /\ UNCHANGED <<locals, history>>
    /\ UNCHANGED <<staging, csv_writer, now, config, stateFile, warehouse, proc, state, running, stop_called,
                   todo, events, in_a_row>>

\* time.sleep(check_interval), at the end of an iteration or in the handler
\* of an exception.
SchedSleep_reraise ==
    /\ pc \in {"sched_sleep", "sched_except"}
    /\ IF pc = "sched_except"
       THEN ProcessEnds /\ UNCHANGED now
       ELSE /\ now' = Min(now + check_interval, MaxTime)
            /\ pc' = "sched_loop"
            /\ UNCHANGED <<proc, state, running, stop_called, todo, locals, history>>
    /\ UNCHANGED <<staging, csv_writer, config, stateFile, warehouse, events, in_a_row>>

SchedSleep ==
    /\ pc \in {"sched_sleep", "sched_except"}
    /\ now' = Min(now + check_interval, MaxTime)
    /\ pc' = "sched_loop"
    /\ UNCHANGED <<staging, csv_writer, config, stateFile, warehouse, proc, state, running, stop_called, todo,
                   locals, events, history, in_a_row>>

\* BatchScheduler.stop, called from outside the loop (another thread, a
\* signal handler), before run or at any point of it.
Stop ==
    /\ proc = "daemon"
    /\ running' = FALSE
    /\ FollowStop(1)
    /\ UNCHANGED <<staging, csv_writer, now, config, stateFile, warehouse, proc, state, todo, pc,
                   locals, events, history, in_a_row>>

\* BatchManager.cleanup_old_state, called between two invocations.
CleanupOldState ==
    /\ pc \in {"main", "sched_loop"}
    /\ Len(state.processed_files) > max_files
    /\ Mutate(cleanup_old_state(state))
    /\ Follow(0)
    /\ UNCHANGED <<staging, csv_writer, now, config, warehouse, proc, running, stop_called, todo, pc, locals, history>>

Next ==
    \/ AddFile
    \/ Tick
    \/ Crash
    \/ StartMain
    \/ MainRun
    \/ MainExit
    \/ MainExcept
    \/ Extract
    \/ Transform
    \/ ExtractOrTransformRaises
    \/ Load
    \/ Mark
    \/ Stats
    \/ TypeUpdate
    \/ SchedRun
    \/ SchedLoop
    \/ SchedVideo
    \/ SchedImage
    \/ SchedSleep
    \/ Stop
    \/ CleanupOldState

Spec == Init /\ [][Next]_vars

\* The full one-shot runs alone: python run_etl.py, again and again, on a
\* staging directory nothing is added to.
NextFull ==
    \/ StartFullRun
    \/ MainRun
    \/ MainExit
    \/ Extract
    \/ Transform
    \/ Load
    \/ Mark
    \/ Stats
    \/ TypeUpdate

SpecFull == InitFull /\ [][NextFull]_vars

\* Continuous mode alone: the scheduler is started once and neither stopped
\* nor killed, while the detection stage delivers. A process that can take a
\* step takes one.
NextDaemon ==
    \/ AddFile
    \/ StartDaemon
    \/ SchedRun
    \/ SchedLoop
    \/ SchedVideo
    \/ SchedImage
    \/ SchedSleep
    \/ Extract
    \/ Transform
    \/ Load
    \/ Mark
    \/ Stats
    \/ TypeUpdate

SpecDaemon == Init /\ [][NextDaemon]_vars /\ WF_vars(NextDaemon)

\* Continuous mode alone, the detection stage delivering videos.
NextVideo ==
    \/ AddVideoFile
    \/ StartDaemon
    \/ SchedRun
    \/ SchedLoop
    \/ SchedVideo
    \/ SchedImage
    \/ SchedSleep
    \/ Extract
    \/ Transform
    \/ Load
    \/ Mark
    \/ Stats
    \/ TypeUpdate

SpecVideo == Init /\ [][NextVideo]_vars /\ WF_vars(NextVideo)

\* The ETL process, started in any mode, while the warehouse is unreachable.
NextDown ==
    \/ AddFile
    \/ Tick
    \/ StartMain
    \/ MainRun
    \/ MainExit
    \/ MainExcept
    \/ Extract
    \/ Transform
    \/ LoadDown
    \/ SchedRun
    \/ SchedLoop
    \/ SchedVideo
    \/ SchedImage
    \/ SchedSleep

SpecDown == Init /\ [][NextDown]_vars

\* ------------------------------------------------------- detection stage
\* The clock of the detection stage, and a call of the CSVWriter: it takes
\* a microsecond at least.
WriterClock == [sec |-> now, usec |-> csv_writer.usec]

WriterCall(w) ==
    /\ csv_writer.usec < MaxUsec
    /\ csv_writer' = [w EXCEPT !.usec = @ + 1]
    /\ UNCHANGED <<staging, now, config, stateFile, warehouse, proc, state, running,
                   stop_called, todo, pc, locals, events, history, in_a_row>>

\* process_video: the detections of a video are written.
WriteVideoDetections ==
    \E video_name \in MediaNames, all_detections \in DetectionLists :
        WriterCall(write_video_detections(csv_writer, video_name, all_detections,
                                          WriterClock))

\* process_images: the detections of an image are written.
WriteImageDetections ==
    \E image_name \in MediaNames, detections \in DetectionLists :
        WriterCall(write_image_detections(csv_writer, image_name, detections,
                                          WriterClock))

AddDetections ==
    \E detections \in DetectionLists :
        WriterCall(add_detections(csv_writer, detections, WriterClock))

Flush ==
    \E source_name \in SourceNames :
        WriterCall(flush(csv_writer, source_name, WriterClock))

\* A flush of a buffer that is not empty fails to write.
FlushRaises ==
    /\ csv_writer.buffer # <<>>
    /\ \E source_name \in SourceNames, upto \in -1..(Len(csv_writer.buffer) - 1) :
          WriterCall(flush_raises(csv_writer, source_name, WriterClock, upto))

\* add_detections fills the buffer and the flush it calls fails to write.
AddDetectionsRaises ==
    \E detections \in DetectionLists :
        /\ Len(csv_writer.buffer) + Len(detections) >= buffer_size
        /\ \E upto \in -1..(Len(csv_writer.buffer) + Len(detections) - 1) :
              WriterCall(add_detections_raises(csv_writer, detections, WriterClock, upto))

\* The next second begins.
WriterTick ==
    /\ now < MaxSeconds
    /\ now' = now + 1
    /\ csv_writer' = [csv_writer EXCEPT !.usec = 0]
    /\ UNCHANGED <<staging, config, stateFile, warehouse, proc, state, running,
                   stop_called, todo, pc, locals, events, history, in_a_row>>

\* The detection stage alone.
NextWriter ==
    \/ WriteVideoDetections
    \/ WriteImageDetections
    \/ AddDetections
    \/ Flush
    \/ FlushRaises
    \/ AddDetectionsRaises
    \/ WriterTick

SpecWriter == Init /\ [][NextWriter]_vars

\* Continuous mode with a scheduler that may be stopped, before run or
\* during it; the calls of stop are followed.
InitStop == InitWith({{}}, MaxEvents, -1, 0)

NextStop ==
    \/ AddFile
    \/ StartDaemon
    \/ Stop
    \/ SchedRun
    \/ SchedLoop
    \/ SchedVideo
    \/ SchedImage
    \/ SchedSleep
    \/ Extract
    \/ Transform
    \/ Load
    \/ Mark
    \/ Stats
    \/ TypeUpdate

SpecStop == InitStop /\ [][NextStop]_vars /\ WF_vars(NextStop)

\* ------------------------------------------------------------------ claims
\* C1: after any sequence of pipeline invocations, aborted and re-run ones
\* included, the warehouse table never holds two rows with the same
\* detection_id.
C1_NoDuplicateRows ==
    \A i \in Ids : warehouse[i] <= 1

\* C2: within an invocation of run_etl_pipeline the state (in memory and on
\* disk) is changed only by the steps of UPDATE_STATE, and these run only
\* after load_with_deduplication has returned in that invocation.
C2_Step ==
    pc \in PipelinePcs =>
        /\ (state' # state /\ proc' # "down") => (pc \in UpdatePcs /\ load_returned)
        /\ stateFile' # stateFile => (pc \in UpdatePcs /\ load_returned)

C2_MutationsAfterLoad == [][C2_Step]_vars

\* C2, its case: the invocation has loaded and has marked its files.
C2_Witness ==
    /\ pc = "type_update"
    /\ load_returned
    /\ state.processed_files # entry.state.processed_files
    /\ state.statistics.total_batches = entry.state.statistics.total_batches + 1

\* The state the next invocation starts from: the state in memory in
\* continuous mode, the state loaded from the file by the next process in
\* one-shot mode.
NextState(mem, file) ==
    IF proc = "oneshot" THEN _load_state(file) ELSE mem

\* C3: when Extract, Transform or Load raises, the state after the
\* invocation is the state before it, and the next invocation of the source
\* type selects the pending files this one selected.
C3_Step ==
    (pc \in {"extract", "transform", "load"} /\ pc' \in {"main_except", "sched_except"}) =>
        LET files == scan_staging_files(staging)[source_type]
        IN  /\ state' = entry.state
            /\ stateFile' = entry.file
            /\ get_pending_files(NextState(state', stateFile'), files, source_type)
                  = get_pending_files(entry.state, files, source_type)

C3_RaiseLeavesState == [][C3_Step]_vars

\* The detection_ids of the rows of staged file f that the transformer
\* passes downstream.
TransformedIds(f) ==
    {r.detection_id : r \in Range(transform_pipeline(extract_multiple(<<f>>)))}

\* C4: for every file name in processed_files, in memory or in the state
\* file, every row of the file that the transformer passes downstream has
\* its detection_id in the warehouse table.
C4_NoRowsLost ==
    \A f \in Range(state.processed_files)
              \cup Range(_load_state(stateFile).processed_files) :
        \A i \in TransformedIds(f) : warehouse[i] > 0

\* C5: when the full pipeline is run twice in a row on a staging area that
\* does not change, the second run writes no row to the warehouse.
C5_SecondRunWritesNothing ==
    in_a_row = 3 => written = 0

\* C6: over the operations of one BatchManager (reset_state is called before
\* the process is up), a file name in processed_files stays in it.
C6_Step ==
    (proc # "down" /\ proc' # "down") =>
        Range(state.processed_files) \subseteq Range(state'.processed_files)

C6_ProcessedFilesStay == [][C6_Step]_vars

\* C7: the scheduler's video check is ready exactly when last_video_batch is
\* unset or at least video_time_window has elapsed since it, whatever is
\* staged, and the check leaves the state in memory and on disk as it was.
C7_Step ==
    (pc = "sched_video" /\ pc' \in {"extract", "sched_image"}) =>
        /\ state' = state
        /\ stateFile' = stateFile
        /\ (pc' = "extract") <=>
              (\/ state.last_video_batch = None
               \/ now - state.last_video_batch[2] >= video_time_window)

C7_VideoTrigger == [][C7_Step]_vars

\* C7, its case: the check has fired with exactly video_time_window elapsed
\* since the last video batch.
C7_Witness ==
    /\ proc = "daemon"
    /\ pc = "extract"
    /\ source_type = "video"
    /\ entry.state.last_video_batch # None
    /\ now - entry.state.last_video_batch[2] = video_time_window

\* C8: right after update_video_batch_time has run the video trigger is not
\* ready, and whenever video_time_window has elapsed since the last video
\* batch it is ready.
C8_Step ==
    /\ (pc = "type_update" /\ source_type = "video" /\ pc' # pc /\ proc' # "down") =>
           ~should_process_video_batch(state', now', video_time_window)
    /\ (/\ state'.last_video_batch # None
        /\ now' >= state'.last_video_batch[2] + video_time_window) =>
           should_process_video_batch(state', now', video_time_window)

C9_Step ==
    /\ \A k \in PendingCounts, N \in PendingCounts :
           should_process_image_batch(k, N) <=> ~(k < N)
    /\ (pc = "sched_image" /\ pc' \in {"extract", "sched_sleep"}) =>
           ((pc' = "extract") <=> ~(Len(state.pending_images) < image_batch_size))

C9_ImageTrigger == [][C9_Step]_vars

\* C9, its case: the image check has fired with a pending count equal to
\* image_batch_size.
C9_Witness ==
    /\ proc = "daemon"
    /\ pc = "extract"
    /\ source_type = "image"
    /\ Len(state.pending_images) = image_batch_size

\* The pending image count as the state holds it, and the number of records
\* in the staged image files the invocation found unprocessed.
PendingImageCount == Len(entry.state.pending_images)
PendingImageRecords ==
    Len(extract_multiple(get_pending_files(entry.state,
                             scan_staging_files(staging)["image"], "image")))

\* C10: an invocation for images made while the pending image count (by the
\* state's list and by the staged records alike) is below image_batch_size
\* writes nothing to the warehouse and marks no image file processed.
C10_NotReadyStops ==
    (/\ source_type = "image"
     /\ PendingImageCount < image_batch_size
     /\ PendingImageRecords < image_batch_size) =>
        /\ written = 0
        /\ \A f \in Range(state.processed_files) :
               startswith(f, "image") => f \in Range(entry.state.processed_files)

\* The number of records in the staged image files that are not processed.
StagedImageRecords ==
    Len(extract_multiple(get_pending_files(state,
                             scan_staging_files(staging)["image"], "image")))

\* C11: in continuous mode, once the staged unprocessed image records are
\* image_batch_size or more, the scheduler comes to invoke the image
\* pipeline (which is what would load and mark the pending image files).
\* Behaviours that use up the budget of events are followed no further.
C11_ImageBatchInvoked ==
    (proc = "daemon" /\ running /\ StagedImageRecords >= image_batch_size)
        ~> ((pc = "extract" /\ source_type = "image") \/ events = 0)

\* The number of rows of df with detection_id i.
RowsWithId(rows, i) ==
    Cardinality({k \in 1..Len(rows) : rows[k].detection_id = i})

\* C12: a load_with_deduplication that returns has written exactly the rows
\* of the batch whose detection_id was not in the warehouse at the call, and
\* when every detection_id of the batch was there it returns 0 and leaves
\* the warehouse as it was.
C12_Step ==
    (pc = "load" /\ pc' = "mark") =>
        /\ \A i \in Ids :
              warehouse'[i] - warehouse[i] =
                  (IF warehouse[i] = 0 THEN RowsWithId(df, i) ELSE 0)
        /\ (\A k \in 1..Len(df) : warehouse[df[k].detection_id] > 0) =>
              (loaded_count' = 0 /\ warehouse' = warehouse)

C12_WritesNovelRows == [][C12_Step]_vars

\* The start index of the chunk that holds the k-th row of a batch.
ChunkOf(k) == ((k - 1) \div chunk_rows) * chunk_rows

\* C13: for the batch of an invocation about to load: when LOAD DATA fails,
\* load_batch returns without raising and has written, in their order, the
\* rows of every chunk of chunk_rows consecutive rows that was not rejected,
\* whatever chunks were rejected before it.
C13_FallbackChunks ==
    \A hive \in HiveOutcomes :
        (pc = "load" /\ hive.connect /\ ~hive.bulk) =>
            LET r == load_batch(df, hive)
                kept == {k \in 1..Len(df) : ChunkOf(k) \notin hive.bad_chunks}
            IN  /\ ~r.raised
                /\ r.total_loaded = Cardinality(kept)
                /\ Len(r.rows) = Cardinality(kept)
                /\ \A k \in kept :
                      r.rows[Cardinality({j \in kept : j <= k})] = df[k]

\* C13, its case: a load has returned after a chunk of the batch was
\* rejected and a later chunk was inserted.
C13_Witness ==
    /\ pc = "mark"
    /\ load_returned
    /\ Len(df) > chunk_rows
    /\ warehouse[df[1].detection_id] = 0
    /\ warehouse[df[Len(df)].detection_id] = 1
    /\ written = Len(df) - chunk_rows

\* The written row-set has exactly the expected columns, in their order.
ExactSchema(cols) ==
    \A k \in 1..Len(expected_columns) : Cardinality(prepare_columns(cols)[k]) = 1

\* Column k is null in the row-set written for a batch with the columns cols.
NullColumn(cols, k) == prepare_columns(cols)[k] = {None}

\* For every batch column set tried: the expected columns exactly, and null
\* in every column the batch did not have.
NullWhereMissing ==
    \A cols \in BatchColumnSets :
        /\ ExactSchema(cols)
        /\ \A k \in 1..Len(expected_columns) :
              expected_columns[k] \notin cols => NullColumn(cols, k)

\* The same with null in every column the batch did not have other than
\* loaded_at and processing_date, and the batch's values in the others.
NullWhereMissingButFilled ==
    \A cols \in BatchColumnSets :
        /\ ExactSchema(cols)
        /\ \A k \in 1..Len(expected_columns) :
              (expected_columns[k] \notin cols \cup {"loaded_at", "processing_date"})
                  => NullColumn(cols, k)
        /\ \A k \in 1..Len(expected_columns) :
              (expected_columns[k] \in cols \ {"loaded_at", "processing_date"})
                  => prepare_columns(cols)[k] = {<<"batch", expected_columns[k]>>}

\* The columns of the batches of the pipeline, and their written schema.
PipelineColumns == DOMAIN extract_csv(VideoA)[1]
PipelineSchemaExact == ExactSchema(PipelineColumns)

\* C14 as stated: for every batch that carries a subset of the expected
\* columns, a load that writes rows writes exactly the expected columns in
\* the canonical order, with null in every column the batch did not have.
C14_Step ==
    (pc = "load" /\ written' > written) => NullWhereMissing

C14_FixedSchema == [][C14_Step]_vars

\* C14, amended: as above, with null in every column the batch did not have
\* other than loaded_at and processing_date, which load_batch fills itself;
\* the batch of the pipeline, which carries _source_file, is written with
\* the expected columns too.
C14_StepAmended ==
    (pc = "load" /\ written' > written) =>
        /\ DOMAIN df[1] = PipelineColumns
        /\ PipelineSchemaExact
        /\ NullWhereMissingButFilled

C14_FixedSchemaAmended == [][C14_StepAmended]_vars

\* C14, its case: a load has written the rows of a batch that lacks expected
\* columns.
C14_Witness ==
    /\ pc = "mark"
    /\ written > 0
    /\ \E k \in 1..Len(expected_columns) : expected_columns[k] \notin DOMAIN df[1]

\* The staged files classified unknown.
UnknownFiles == Range(scan_staging_files(staging)["unknown"])

\* C15: every staged file is in exactly one of the lists video, image and
\* unknown, the one of its prefix; and a file classified unknown is not in
\* the pending files or the batch of an invocation, has no row in the
\* warehouse and is not in processed_files (in memory or on disk), nor in
\* what extract_pending_files would extract at the start of an invocation.
C15_UnknownNeverProcessed ==
    LET lists == scan_staging_files(staging)
        unknown == Range(lists["unknown"])
    IN  /\ \A f \in staging :
              /\ f \in Range(lists["video"]) <=> f[1] = "video"
              /\ f \in Range(lists["image"]) <=> f[1] = "image"
              /\ f \in unknown <=> f[1] \notin {"video", "image"}
        /\ \A f \in unknown :
              /\ f \notin Range(pending_files)
              /\ f \notin Range(state.processed_files)
              /\ f \notin Range(_load_state(stateFile).processed_files)
              /\ \A k \in 1..Len(df) : df[k]._source_file # f
              /\ \A r \in Range(extract_csv(f)) : warehouse[r.detection_id] = 0
              /\ pc = "extract" =>
                    \A t \in {"video", "image", ""} :
                        \A r \in Range(extract_pending_files(state.processed_files,
                                                             t, staging)) :
                            r._source_file # f

\* C15, its case: a file of unknown prefix is staged and the video and the
\* image files staged with it have been loaded and marked.
C15_Witness ==
    /\ NotesX \in UnknownFiles
    /\ {VideoA, ImageB} \subseteq Range(state.processed_files)
    /\ warehouse[1] > 0
    /\ warehouse[3] > 0

\* The generated id of each detection of the staged rows.
GeneratedId == [i \in Ids |-> _generate_detection_id(DetectionOf[i].info, DetectionOf[i].idx)]

\* For the source_info records and indexes tried, two ids generated for one
\* source_info are the same exactly when the indexes are the same.
SameIdIffSameIdx ==
    \A info \in SourceInfos : \A i \in DetectionIdxs, j \in DetectionIdxs :
        (_generate_detection_id(info, i) = _generate_detection_id(info, j)) <=> (i = j)

\* C16: _generate_detection_id gives one id for one (source, frame_number,
\* timestamp, idx) and different ids for different idx; so the rows in the
\* warehouse that stand for different detections have different generated
\* ids, and the repeated row of image b has the id of the row it repeats.
C16_DeterministicIds ==
    /\ SameIdIffSameIdx
    /\ \A i \in Ids, j \in Ids :
          (warehouse[i] > 0 /\ warehouse[j] > 0) =>
              ((GeneratedId[i] = GeneratedId[j]) <=> (i = j))

\* C16, its case: the two detections of image b, which differ in idx alone,
\* are both in the warehouse, once each.
C16_Witness ==
    /\ DetectionOf[3].info = DetectionOf[4].info
    /\ DetectionOf[3].idx # DetectionOf[4].idx
    /\ warehouse[3] = 1
    /\ warehouse[4] = 1

\* C17: in continuous mode an exception of the ETL callback is caught by
\* the loop, which goes on running; the handler sleeps check_interval and
\* goes back to the loop's test, which starts another iteration while the
\* stop flag is not set; and the scheduler's process ends of itself only at
\* the loop's test with the stop flag set.
C17_Step ==
    /\ (proc = "daemon" /\ pc \in PipelinePcs /\ pc' = "sched_except") =>
          (proc' = "daemon" /\ running' = running)
    /\ (pc = "sched_except" /\ pc' # pc /\ events' = events) =>
          /\ pc' = "sched_loop"
          /\ proc' = "daemon"
          /\ running' = running
          /\ now' = Min(now + check_interval, MaxTime)
    /\ (pc = "sched_loop" /\ running /\ pc' # pc /\ events' = events) =>
          (pc' = "sched_video" /\ proc' = "daemon")
    /\ (proc = "daemon" /\ proc' = "down" /\ events' = events) =>
          (pc = "sched_loop" /\ ~running)

C17_LoopSurvives ==
    /\ [][C17_Step]_vars
    /\ (proc = "daemon" /\ pc = "sched_except") ~> (pc = "sched_video")

\* C17, its case: an invocation got past its extraction and raised (no batch
\* is counted), and the scheduler is in a later iteration.
C17_Witness ==
    /\ proc = "daemon"
    /\ pc = "sched_video"
    /\ running
    /\ events < MaxEvents
    /\ state.statistics.total_batches = 0

\* C18: whenever a save touches the state file, what a restarted
\* BatchManager loads from it is the complete state of before the mutation
\* or the complete state of after it.
C18_Step ==
    stateFile' # stateFile =>
        _load_state(stateFile') \in {_load_state(stateFile), state'}

C18_AtomicPersistence == [][C18_Step]_vars

\* The files whose records extract_multiple put into the batch.
ExtractedFiles(filepaths) ==
    {r._source_file : r \in Range(extract_multiple(filepaths))}

\* C19: the names that the marking of an invocation adds to processed_files
\* are exactly the names of the files whose records were extracted into its
\* batch.
C19_Step ==
    (pc = "mark" /\ pc' = "stats") =>
        Range(state'.processed_files) \ Range(state.processed_files)
            = ExtractedFiles(pending_files)

C19_MarksExtractedFiles == [][C19_Step]_vars

\* The number of rows of the readable files among the first n of a list.
RECURSIVE RowsOfFirst(_, _)
RowsOfFirst(filepaths, n) ==
    IF n = 0 THEN 0
    ELSE RowsOfFirst(filepaths, n - 1)
         + (IF Readable(filepaths[n]) THEN Len(Content(filepaths[n])) ELSE 0)

\* batch holds, in the order of the list, the rows of every readable file of
\* the list, each tagged with its file, and nothing else.
RowsOfReadableFiles(filepaths, batch) ==
    /\ Len(batch) = RowsOfFirst(filepaths, Len(filepaths))
    /\ \A i \in 1..Len(filepaths) :
          Readable(filepaths[i]) =>
              \A j \in 1..Len(Content(filepaths[i])) :
                  batch[RowsOfFirst(filepaths, i - 1) + j] =
                      [detection_id |-> Content(filepaths[i])[j].detection_id,
                       confidence |-> Content(filepaths[i])[j].confidence,
                       _source_file |-> filepaths[i]]

\* For every list tried: the batch is the rows of the readable files, and it
\* is empty only when no file of the list is readable.
EmptyOnlyIfNoneRead ==
    \A filepaths \in FileLists :
        /\ RowsOfReadableFiles(filepaths, extract_multiple(filepaths))
        /\ extract_multiple(filepaths) = <<>> =>
              \A i \in 1..Len(filepaths) : ~Readable(filepaths[i])

\* The same, the batch being empty only when no file of the list is
\* readable or every readable file of the list holds no row.
EmptyOnlyIfNoRowRead ==
    \A filepaths \in FileLists :
        /\ RowsOfReadableFiles(filepaths, extract_multiple(filepaths))
        /\ extract_multiple(filepaths) = <<>> =>
              \A i \in 1..Len(filepaths) :
                  ~Readable(filepaths[i]) \/ Content(filepaths[i]) = <<>>

\* C20 as stated: extract_multiple returns (it does not raise on an
\* unreadable file) the rows of every readable file in list order, tagged
\* with their file, no row of an unreadable file, and an empty batch only
\* when no file could be read; so for the batch an invocation extracts.
C20_Step ==
    (pc = "extract" /\ pc' = "transform") =>
        /\ RowsOfReadableFiles(pending_files', df')
        /\ EmptyOnlyIfNoneRead

C20_SkipsUnreadable == [][C20_Step]_vars

\* C20, amended: the batch is empty only when no file could be read or the
\* files read hold no row.
C20_StepAmended ==
    (pc = "extract" /\ pc' = "transform") =>
        /\ RowsOfReadableFiles(pending_files', df')
        /\ EmptyOnlyIfNoRowRead

C20_SkipsUnreadableAmended == [][C20_StepAmended]_vars

\* C20, its case: an invocation has extracted a batch from a list that held
\* an unreadable file.
C20_Witness ==
    /\ pc = "transform"
    /\ VideoBad \in Range(pending_files)
    /\ df # <<>>

\* C21: an error of the loader is fatal to the whole load: for every batch
\* that reaches the load, when the read of the existing detection_ids fails,
\* load_with_deduplication raises and writes no row.
C21_FailedReadIsFatal ==
    (pc = "load" /\ df # <<>>) =>
        \A hive \in HiveOutcomes :
            ~hive.ids_read =>
                LET r == load_with_deduplication(df, warehouse, hive)
                IN  r.raised /\ r.rows = <<>>

\* The number of rows of the table.
RECURSIVE RowsUpTo(_, _)
RowsUpTo(table, n) == IF n = 0 THEN 0 ELSE RowsUpTo(table, n - 1) + table[n]

TableRows(table) == RowsUpTo(table, Cardinality(Ids))

\* C22: whenever load_with_deduplication returns, on the bulk path and on the
\* chunked fallback alike, the integer it returns is the number of rows the
\* call added to the warehouse table.
C22_Step ==
    (pc = "load" /\ pc' = "mark") =>
        loaded_count' = TableRows(warehouse') - TableRows(warehouse)

C22_CountIsRowsAdded == [][C22_Step]_vars

\* C22, its case: a load on the fallback path returned after some of its
\* chunks were rejected and some inserted.
C22_Witness ==
    /\ pc = "mark"
    /\ load_returned
    /\ loaded_count > 0
    /\ \E k \in 1..Len(df) : warehouse[df[k].detection_id] = 0

\* pending holds, in the order of all_files, exactly the names of all_files
\* that are not in processed and carry the prefix of the source type.
PendingOf(all, processed, type, pending) ==
    LET kept == {k \in 1..Len(all) : all[k] \notin processed /\ all[k][1] = type}
    IN  /\ Len(pending) = Cardinality(kept)
        /\ \A k \in kept : pending[Cardinality({j \in kept : j <= k})] = all[k]
        /\ \A k \in 1..Len(pending) : pending[k] \notin processed

\* For every list of names tried, every processed_files and both source types.
PendingOfEveryList ==
    \A all \in FileLists, done \in FileLists, type \in {"video", "image"} :
        PendingOf(all, Range(done), type,
                  get_pending_files([DefaultState EXCEPT !.processed_files = done],
                                    all, type))

\* C23: get_pending_files returns exactly the names of all_files that are not
\* in processed_files and carry the source-type prefix, in the order of
\* all_files, and never a name of processed_files; so for the pending files
\* of each invocation.
C23_Step ==
    (pc = "extract" /\ pc' = "transform") =>
        /\ PendingOf(scan_staging_files(staging)[source_type],
                     Range(state.processed_files), source_type, pending_files')
        /\ PendingOfEveryList

C23_PendingFiles == [][C23_Step]_vars

\* C23, its case: an invocation selected its pending files while a staged
\* file of its type was already processed.
C23_Witness ==
    /\ pc = "transform"
    /\ source_type = "image"
    /\ ImageB \in Range(state.processed_files)
    /\ pending_files = <<ImageC>>

\* C24: in continuous mode the two triggers are evaluated independently: in
\* an iteration, once the video trigger has been found not ready or the video
\* pipeline has ended, by returning or by raising, the image trigger is
\* evaluated next.
C24_Step ==
    ( /\ proc = "daemon" /\ proc' = "daemon"
      /\ pc = "sched_video" \/ (source_type = "video" /\ pc \in PipelinePcs)
      /\ pc' \notin PipelinePcs
      /\ pc' # pc )
        => pc' = "sched_image"

C24_IndependentTriggers == [][C24_Step]_vars

\* C25: stop is a flag checked between iterations. Once stop has been
\* called, before run or during it, the loop starts no new iteration and run
\* terminates (the process ends, unless the invocation in progress is held
\* up for want of events); the call of stop changes nothing but the flag and
\* run ends at the test of the loop alone, so no iteration is interrupted.
C25_Step ==
    /\ (stop_called = 1 /\ pc' = "sched_video") => pc = "sched_video"
    /\ (stop_called = 0 /\ stop_called' = 1) =>
          UNCHANGED <<pc, state, locals, stateFile, warehouse>>
    /\ (stop_called = 1 /\ proc = "daemon" /\ proc' = "down") => pc = "sched_loop"

C25_StopBetweenIterations ==
    /\ [][C25_Step]_vars
    /\ (stop_called = 1) ~> (proc = "down" \/ events = 0)

\* A state-changing operation of BatchManager returns: one of the three
\* updates of an invocation, reset_state at the start of main, or
\* cleanup_old_state.
OperationReturns ==
    \/ pc \in UpdatePcs /\ pc' \notin {pc, "idle"}
    \/ /\ proc = "down" /\ proc' # "down"
       /\ stateFile' # stateFile \/ state' # _load_state(stateFile)
    \/ pc \in {"main", "sched_loop"} /\ pc' = pc /\ state' # state

\* C26: after every state-changing operation of BatchManager returns, the
\* content of the state file is the in-memory state.
C26_Step == OperationReturns => stateFile' = json_dump(state')

C26_FileEqualsMemory == [][C26_Step]_vars

\* The empty default state, field by field.
EmptyState(st) ==
    /\ DOMAIN st = {"processed_files", "last_video_batch", "pending_images",
                    "last_run", "statistics"}
    /\ st.processed_files = <<>>
    /\ st.last_video_batch = None
    /\ st.pending_images = <<>>
    /\ st.last_run = None
    /\ DOMAIN st.statistics = {"total_batches", "total_records", "video_batches",
                               "image_batches"}
    /\ \A c \in DOMAIN st.statistics : st.statistics[c] = 0

\* C27: when the state file is absent at startup, BatchManager starts in the
\* empty default state (no unset field, the four counters 0), and in that
\* state should_process_video_batch() is true, at any time and for any window.
C27_Step ==
    (proc = "down" /\ proc' # "down" /\ stateFile.kind = "absent") =>
        /\ EmptyState(_load_state(stateFile))
        /\ EmptyState(state')
        /\ \A clock \in 0..MaxTime, window \in 0..MaxTime :
              should_process_video_batch(state', clock, window)

C27_AbsentFileDefaultState == [][C27_Step]_vars

\* C27, its case: a scheduler started without a state file has found the
\* video trigger ready in the default state, later than time 0.
C27_Witness ==
    /\ proc = "daemon"
    /\ pc = "extract"
    /\ source_type = "video"
    /\ stateFile.kind = "absent"
    /\ entry.state = DefaultState
    /\ now > 0

\* The invocation in progress has nothing to do: no staged file of its source
\* type is unprocessed, or none of the unprocessed ones yields a row.
NothingToExtract ==
    LET pending == {f \in staging : f[1] = source_type
                                    /\ f \notin Range(state.processed_files)}
    IN  \A f \in pending : ~Readable(f) \/ Content(f) = <<>>

\* C28: an invocation that finds no pending file of its source type, or whose
\* extraction yields an empty batch, goes back to its caller from the
\* extraction, the transformer and the loader not called, and leaves the
\* pipeline state, in memory and on disk, and the warehouse unchanged.
C28_Step ==
    ( /\ pc = "extract" /\ NothingToExtract
      /\ proc' = proc
      /\ pc' \notin {"extract", "main_except", "sched_except"} )
        => /\ pc' \in {"main", "sched_image", "sched_sleep"}
           /\ UNCHANGED <<state, stateFile, warehouse>>

C28_EmptyRunChangesNothing == [][C28_Step]_vars

\* C28, its case: in continuous mode a video invocation has gone back to the
\* scheduler without an update (the trigger is still ready), the one video
\* file staged being processed and loaded already.
C28_Witness ==
    /\ proc = "daemon"
    /\ pc = "sched_image"
    /\ should_process_video_batch(state, now, video_time_window)
    /\ VideoA \in Range(state.processed_files)
    /\ warehouse[1] > 0

\* The pipeline never fills pending_images; the two updates applied to states
\* in which it is filled keep it (video) and empty it (image).
PendingImagesKeptOrEmptied ==
    \A pending \in {<<>>, <<ImageB>>, <<ImageB, ImageC>>}, clock \in 0..MaxTime :
        LET st == [DefaultState EXCEPT !.pending_images = pending]
        IN  /\ update_video_batch_time(st, clock).pending_images = pending
            /\ update_image_batch_processed(st, Len(pending)).pending_images = <<>>

\* C29: the update of a completed run is specific to its source type. A video
\* run sets last_video_batch to the current time and adds exactly 1 to
\* video_batches, image_batches and pending_images being as the run found
\* them; an image run adds exactly 1 to image_batches and empties
\* pending_images, video_batches and last_video_batch being as the run found
\* them.
C29_Step ==
    (pc = "type_update" /\ pc' \notin {"type_update", "idle"}) =>
        LET before == entry.state
        IN  /\ PendingImagesKeptOrEmptied
            /\ IF source_type = "video"
               THEN /\ state'.last_video_batch = isoformat(now)
                    /\ state'.statistics.video_batches = before.statistics.video_batches + 1
                    /\ state'.statistics.image_batches = before.statistics.image_batches
                    /\ state'.pending_images = before.pending_images
               ELSE /\ state'.statistics.image_batches = before.statistics.image_batches + 1
                    /\ state'.pending_images = <<>>
                    /\ state'.statistics.video_batches = before.statistics.video_batches
                    /\ state'.last_video_batch = before.last_video_batch

C29_TypeSpecificUpdate == [][C29_Step]_vars

\* C29, its case: an image run has completed after a video run, each counted
\* once, the time of the video batch kept.
C29_Witness ==
    /\ pc \in {"main", "sched_sleep"}
    /\ state.statistics.video_batches = 1
    /\ state.statistics.image_batches = 1
    /\ state.statistics.total_batches = 2
    /\ state.last_video_batch # None
    /\ now > fromisoformat(state.last_video_batch)

\* C30: the staging store is append-only: no write of the detection stage
\* replaces or changes the content of a staged file that exists, and the ETL
\* core neither deletes nor modifies a staged file.
C30_Step ==
    /\ \A f \in DOMAIN csv_writer.staging_dir :
          /\ f \in DOMAIN csv_writer'.staging_dir
          /\ csv_writer'.staging_dir[f] = csv_writer.staging_dir[f]
    /\ staging \subseteq staging'

C30_AppendOnly == [][C30_Step]_vars

\* C31: every CSV file the detection stage writes into the staging directory
\* is named {video|image}_{basename}_{YYYYMMDD_HHMMSS}.csv: the extractor
\* finds one of its two prefixes, so the file is not unknown, and the
\* timestamp is one of seconds.
C31_StagedNamesClassified ==
    \A f \in DOMAIN csv_writer.staging_dir :
        /\ startswith(f, "video") \/ startswith(f, "image")
        /\ \E sec \in 0..MaxSeconds : f[3] = <<sec>>

\* C32: when the warehouse is unreachable at startup the ETL process exits
\* with a non-zero status immediately, in one-shot and in continuous mode: no
\* phase of the pipeline is run and the poll loop is not entered, the process
\* ends through the handler of main (status 1), and the pipeline state,
\* reset on request at the start, is not changed afterwards.
C32_Step ==
    /\ pc' \notin PipelinePcs
    /\ pc' \notin {"sched_loop", "sched_video", "sched_image", "sched_sleep",
                   "sched_except"}
    /\ (proc # "down" /\ proc' = "down") => pc = "main_except"
    /\ proc # "down" => stateFile' = stateFile

C32_UnreachableAtStartup == [][C32_Step]_vars

\* The clock of the model has reached its bound with the video window not
\* elapsed: time passes no further.
ClockAtBound ==
    now = MaxTime /\ ~should_process_video_batch(state, now, video_time_window)

\* A video invocation ends before the update of the state: it returns from
\* the extraction or raises.
VideoRunStopsEarly ==
    /\ proc = "daemon" /\ proc' = "daemon"
    /\ source_type = "video"
    /\ pc \in {"extract", "transform", "load"}
    /\ pc' \notin PipelinePcs

\* C33: in continuous mode every staged video file that is readable and holds
\* rows is eventually in processed_files (as far as the events and the clock
\* of the model reach); a video run that stops before the update of the state
\* leaves last_video_batch as it found it, so the video trigger, ready when
\* the run began, is ready at the next iteration whatever the time.
C33_Step ==
    VideoRunStopsEarly =>
        /\ state'.last_video_batch = entry.state.last_video_batch
        /\ \A clock \in now..MaxTime :
              should_process_video_batch(state', clock, video_time_window)

C33_VideoEventuallyProcessed ==
    /\ [][C33_Step]_vars
    /\ \A f \in {VideoA, VideoD} :
          (proc = "daemon" /\ f \in staging /\ Readable(f) /\ Content(f) # <<>>)
              ~> (f \in Range(state.processed_files) \/ events = 0 \/ ClockAtBound)

\* C33, its case: a video file delivered after a video batch has been
\* processed by a second batch, the window elapsed.
C33_Witness ==
    /\ proc = "daemon"
    /\ VideoD \in Range(state.processed_files)
    /\ state.statistics.video_batches = 2

\* The four counters of st are natural numbers, and at least those of old.
CountersFrom(old, st) ==
    \A c \in {"total_batches", "total_records", "video_batches", "image_batches"} :
        st.statistics[c] >= 0 /\ st.statistics[c] >= old.statistics[c]

BatchesAddUp(st) ==
    st.statistics.total_batches =
        st.statistics.video_batches + st.statistics.image_batches

\* C34: from the default state on, after any sequence of completed
\* invocations, in one process or in several, total_batches is video_batches
\* + image_batches in the state a BatchManager holds between two invocations,
\* and no counter is negative or decreases, in memory during a process and in
\* the state a new BatchManager would load, unless the state is reset.
C34_Step ==
    /\ (proc' # "down" /\ pc' \notin UpdatePcs) => BatchesAddUp(state')
    /\ (proc # "down" /\ proc' # "down") => CountersFrom(state, state')
    /\ proc # "down" => CountersFrom(_load_state(stateFile), _load_state(stateFile'))

C34_CountersConsistent == [][C34_Step]_vars

\* C35: from the default state and an empty warehouse table, with no
\* warehouse cleanup and no reset, whenever no pipeline invocation is in
\* progress statistics.total_records, in the state the BatchManager holds and
\* in the state a new BatchManager would load, is the number of rows of the
\* warehouse table.
C35_Step ==
    (pc' \notin PipelinePcs) =>
        /\ proc' # "down" => state'.statistics.total_records = TableRows(warehouse')
        /\ _load_state(stateFile').statistics.total_records = TableRows(warehouse')

C35_RecordsAreTableRows == [][C35_Step]_vars

\* C36: whenever a state-changing operation of BatchManager returns and the
\* state file is one an instance has written (it exists and parses), a
\* BatchManager constructed over it would start with the five fields the
\* instance holds in memory.
C36_Step ==
    (OperationReturns /\ stateFile'.kind = "json") =>
        \A field \in DOMAIN DefaultState : _load_state(stateFile')[field] = state'[field]

C36_LoadAfterSaveIsIdentity == [][C36_Step]_vars

NoDuplicates(s) == \A i, j \in 1..Len(s) : s[i] = s[j] => i = j

\* mark_files_processed on every duplicate-free list of processed names and
\* every argument list of at most MaxFiles names, lists that repeat a name or
\* hold names already processed among them: the result has no duplicate, and
\* a second call with the same list changes nothing.
MarkOfEveryList ==
    \A processed \in {p \in FileLists : NoDuplicates(p)} :
        \A filenames \in FileLists :
            LET st == [DefaultState EXCEPT !.processed_files = processed]
                once == mark_files_processed(st, filenames)
            IN  /\ NoDuplicates(once.processed_files)
                /\ mark_files_processed(once, filenames) = once

\* C37: mark_files_processed keeps processed_files free of duplicates and is
\* idempotent, for any argument list and in every call the pipeline makes:
\* the state after the call has no duplicate if the state before had none,
\* and the same call again would leave the state, and under the same outcome
\* of the write the state file, as they are.
C37_Step ==
    /\ MarkOfEveryList
    /\ (pc = "mark" /\ pc' = "stats") =>
          /\ NoDuplicates(state.processed_files) => NoDuplicates(state'.processed_files)
          /\ mark_files_processed(state', pending_files) = state'
          /\ \A outcome \in SaveOutcomes :
                stateFile' = _save_state(state', stateFile, outcome) =>
                    _save_state(state', stateFile', outcome) = stateFile'

C37_MarkIdempotent == [][C37_Step]_vars

\* C37, its case: mark_files_processed has added names to a list that
\* already held some.
C37_Witness ==
    /\ pc = "stats"
    /\ pending_files # <<>>
    /\ Len(state.processed_files) > Len(pending_files)
    /\ Range(pending_files) \subseteq Range(state.processed_files)

\* The rows of a staged file that are the detection d.
RowsOf(rows, d) == Cardinality({k \in 1..Len(rows) : rows[k] = d})

RECURSIVE RowsIn(_, _, _)
RowsIn(dir, names, d) ==
    IF names = {} THEN 0
    ELSE LET f == CHOOSE g \in names : TRUE
         IN  RowsOf(dir[f], d) + RowsIn(dir, names \ {f}, d)

\* How often the detection d is held by the writer w: in its buffer and in
\* the files flush wrote (those of write_video_detections and
\* write_image_detections hold no buffered detection).
Held(w, d) ==
    RowsOf(w.buffer, d)
        + RowsIn(w.staging_dir,
                 {f \in DOMAIN w.staging_dir : f[1] \notin {"video", "image"}}, d)

Detections == UNION {Range(detections) : detections \in DetectionLists}

\* The detections a step adds at most: those of one call of add_detections.
MaxAdded ==
    CHOOSE n \in 0..1 :
        /\ \A detections \in DetectionLists : Len(detections) <= n
        /\ \E detections \in DetectionLists : Len(detections) = n

\* C38: CSVWriter loses and duplicates no buffered detection. In every step
\* each detection is held, in the buffer and in the files flush wrote
\* together, as often as before, but for the detections of one
\* add_detections (a step that leaves the buffer as it is adds none); after
\* add_detections returns the buffer holds fewer than buffer_size detections;
\* when a flush fails to write the buffer is unchanged.
C38_Step ==
    /\ \A d \in Detections : Held(csv_writer', d) >= Held(csv_writer, d)
    /\ csv_writer'.buffer = csv_writer.buffer =>
          \A d \in Detections : Held(csv_writer', d) = Held(csv_writer, d)
    /\ \A d \in Detections :
          Held(csv_writer', d) - Held(csv_writer, d)
              <= IF Len(csv_writer'.buffer) > Len(csv_writer.buffer)
                 THEN RowsOf(csv_writer'.buffer, d) - RowsOf(csv_writer.buffer, d)
                 ELSE MaxAdded
    /\ \A detections \in DetectionLists :
          csv_writer' = [add_detections(csv_writer, detections, WriterClock)
                            EXCEPT !.usec = @ + 1]
              => Len(csv_writer'.buffer) < buffer_size
    /\ \A source_name \in SourceNames, upto \in -1..Len(csv_writer.buffer) :
          csv_writer' = [flush_raises(csv_writer, source_name, WriterClock, upto)
                            EXCEPT !.usec = @ + 1]
              => csv_writer'.buffer = csv_writer.buffer

C38_NoDetectionLostOrDuplicated == [][C38_Step]_vars

====
